---- MODULE Spec2Model ----
(***************************************************************************)
(* Model of the Mumble control channel codecs of src/src/control.rs:       *)
(* RawControlCodec (length-prefixed framing), the ControlPacket            *)
(* conversions generated by define_packets!, and ControlCodec.             *)
(*                                                                         *)
(* Byte buffers (Bytes / BytesMut) are kept run-length encoded: a buffer   *)
(* is a sequence of runs <<b, n>> (n >= 1 copies of byte b, neighbouring   *)
(* runs holding different bytes), so that a payload of 0x7fffff bytes is   *)
(* one run.  Every buffer operation below is the flat-array operation of   *)
(* the bytes crate computed on that representation.                        *)
(***************************************************************************)
EXTENDS Integers, Sequences, FiniteSets, TLC

VARIABLES feature, tx, rx, sent, wire, buf, out, last

vars == <<feature, tx, rx, sent, wire, buf, out, last>>

(***************************************************************************)
(* Bounds of the model.                                                    *)
(***************************************************************************)
\* bytes appended one at a time to a raw buffer before a decode must shrink it
MaxRawLen == 6
\* bytes in a raw buffer up to which a whole frame is still appended
MaxBufLen == 8
\* frames put on one stream
MaxFrames == 2
\* single bytes are delivered while the read buffer or the wire is this short
MaxSplit == 8

(***************************************************************************)
(* Program constants.                                                      *)
(***************************************************************************)
\* control.rs:67  if len > 0x7f_ffff
MaxPacketLen == 8388607
\* control.rs:63  the header: u16 id, u32 length
HeaderLen == 6

(***************************************************************************)
(* Byte buffers.                                                           *)
(***************************************************************************)
\* byte values the model draws buffer contents from
ByteVals == {0, 127, 128, 255}

\* n copies of byte b
Run(b, n) == IF n = 0 THEN <<>> ELSE << <<b, n>> >>

\* Bytes::len / BytesMut::len
RECURSIVE BLen(_)
BLen(s) == IF s = <<>> THEN 0 ELSE s[1][2] + BLen(Tail(s))

\* the byte at offset i (0-based), i < BLen(s)
RECURSIVE BAt(_, _)
BAt(s, i) == IF i < s[1][2] THEN s[1][1] ELSE BAt(Tail(s), i - s[1][2])

\* BufMut::put_slice: s followed by t
BCat(s, t) ==
    IF s = <<>> THEN t
    ELSE IF t = <<>> THEN s
    ELSE LET a == s[Len(s)]
             c == t[1]
         IN  IF a[1] = c[1]
             THEN SubSeq(s, 1, Len(s) - 1) \o << <<a[1], a[2] + c[2]>> >> \o Tail(t)
             ELSE s \o t

\* the first k bytes of s (what BytesMut::split_to(k) returns), k <= BLen(s)
RECURSIVE BTake(_, _)
BTake(s, k) ==
    IF k = 0 \/ s = <<>> THEN <<>>
    ELSE IF s[1][2] <= k THEN <<s[1]>> \o BTake(Tail(s), k - s[1][2])
    ELSE << <<s[1][1], k>> >>

\* s without its first k bytes (Buf::advance(k); what split_to(k) leaves)
RECURSIVE BDrop(_, _)
BDrop(s, k) ==
    IF k = 0 \/ s = <<>> THEN s
    ELSE IF s[1][2] <= k THEN BDrop(Tail(s), k - s[1][2])
    ELSE << <<s[1][1], s[1][2] - k>> >> \o Tail(s)

\* a flat sequence of bytes as a buffer
RECURSIVE FromSeq(_)
FromSeq(q) == IF q = <<>> THEN <<>> ELSE BCat(Run(q[1], 1), FromSeq(Tail(q)))

\* s is a prefix of t
IsPrefix(s, t) == BLen(s) <= BLen(t) /\ BTake(t, BLen(s)) = s

(***************************************************************************)
(* Big-endian integers.  A u32 is kept as its two 16-bit halves <<hi, lo>> *)
(* so that every u32 value is representable.                               *)
(***************************************************************************)
\* Buf::get_u16 at offset off
GetU16(s, off) == BAt(s, off) * 256 + BAt(s, off + 1)

\* Buf::get_u32 at offset off
GetU32(s, off) == <<GetU16(s, off), GetU16(s, off + 2)>>

\* a number below 2^31 as a u32
ToU32(n) == <<n \div 65536, n % 65536>>

\* a > b on u32
U32Gt(a, b) == a[1] > b[1] \/ (a[1] = b[1] /\ a[2] > b[2])

\* u32 as usize, for values that passed the length check
U32ToNat(a) == a[1] * 65536 + a[2]

\* BufMut::put_u16
PutU16(dst, v) == BCat(dst, FromSeq(<<(v \div 256) % 256, v % 256>>))

\* BufMut::put_u32 of (n as u32)
PutU32(dst, n) ==
    BCat(dst, FromSeq(<<(n \div 16777216) % 256, (n \div 65536) % 256,
                        (n \div 256) % 256, n % 256>>))

(***************************************************************************)
(* RawControlPacket and RawControlCodec.                                   *)
(***************************************************************************)
RawControlPacket(id, bytes) == [id |-> id, bytes |-> bytes]

\* RawControlCodec::decode with the length check written as len >= 0x7f_ffff
RawDecode_LimitOffByOne(b) ==
    LET buf_len == BLen(b) IN
    IF buf_len >= HeaderLen
    THEN LET id  == GetU16(b, 0)
             len == GetU32(b, 2)
         IN  IF ~ U32Gt(ToU32(MaxPacketLen), len)
             THEN [res |-> "toolong", pkt |-> <<>>, rest |-> b]
             ELSE IF buf_len >= HeaderLen + U32ToNat(len)
             THEN LET n     == HeaderLen + U32ToNat(len)
                      bytes == BDrop(BTake(b, n), HeaderLen)
                  IN  [res |-> "frame", pkt |-> <<RawControlPacket(id, bytes)>>,
                       rest |-> BDrop(b, n)]
             ELSE [res |-> "none", pkt |-> <<>>, rest |-> b]
    ELSE [res |-> "none", pkt |-> <<>>, rest |-> b]

\* RawControlCodec::decode reading the header off the buffer itself instead of
\* through a Cursor, so that an incomplete frame loses its header
RawDecode_ConsumesHeader(b) ==
    LET buf_len == BLen(b) IN
    IF buf_len >= HeaderLen
    THEN LET id  == GetU16(b, 0)
             len == GetU32(b, 2)
         IN  IF U32Gt(len, ToU32(MaxPacketLen))
             THEN [res |-> "toolong", pkt |-> <<>>, rest |-> b]
             ELSE IF buf_len >= HeaderLen + U32ToNat(len)
             THEN LET n     == HeaderLen + U32ToNat(len)
                      bytes == BDrop(BTake(b, n), HeaderLen)
                  IN  [res |-> "frame", pkt |-> <<RawControlPacket(id, bytes)>>,
                       rest |-> BDrop(b, n)]
             ELSE [res |-> "none", pkt |-> <<>>, rest |-> BDrop(b, HeaderLen)]
    ELSE [res |-> "none", pkt |-> <<>>, rest |-> b]

\* RawControlCodec::decode without bytes.advance(6)
RawDecode_NoAdvance(b) ==
    LET buf_len == BLen(b) IN
    IF buf_len >= HeaderLen
    THEN LET id  == GetU16(b, 0)
             len == GetU32(b, 2)
         IN  IF U32Gt(len, ToU32(MaxPacketLen))
             THEN [res |-> "toolong", pkt |-> <<>>, rest |-> b]
             ELSE IF buf_len >= HeaderLen + U32ToNat(len)
             THEN LET n     == HeaderLen + U32ToNat(len)
                      bytes == BTake(b, n)
                  IN  [res |-> "frame", pkt |-> <<RawControlPacket(id, bytes)>>,
                       rest |-> BDrop(b, n)]
             ELSE [res |-> "none", pkt |-> <<>>, rest |-> b]
    ELSE [res |-> "none", pkt |-> <<>>, rest |-> b]

\* RawControlCodec::decode reading the id with get_u16_le
RawDecode_LittleEndianId(b) ==
    LET buf_len == BLen(b) IN
    IF buf_len >= HeaderLen
    THEN LET id  == BAt(b, 1) * 256 + BAt(b, 0)
             len == GetU32(b, 2)
         IN  IF U32Gt(len, ToU32(MaxPacketLen))
             THEN [res |-> "toolong", pkt |-> <<>>, rest |-> b]
             ELSE IF buf_len >= HeaderLen + U32ToNat(len)
             THEN LET n     == HeaderLen + U32ToNat(len)
                      bytes == BDrop(BTake(b, n), HeaderLen)
                  IN  [res |-> "frame", pkt |-> <<RawControlPacket(id, bytes)>>,
                       rest |-> BDrop(b, n)]
             ELSE [res |-> "none", pkt |-> <<>>, rest |-> b]
    ELSE [res |-> "none", pkt |-> <<>>, rest |-> b]

\* RawControlCodec::decode with the completeness check written buf_len > 6 + len
RawDecode_StrictComplete(b) ==
    LET buf_len == BLen(b) IN
    IF buf_len >= HeaderLen
    THEN LET id  == GetU16(b, 0)
             len == GetU32(b, 2)
         IN  IF U32Gt(len, ToU32(MaxPacketLen))
             THEN [res |-> "toolong", pkt |-> <<>>, rest |-> b]
             ELSE IF buf_len > HeaderLen + U32ToNat(len)
             THEN LET n     == HeaderLen + U32ToNat(len)
                      bytes == BDrop(BTake(b, n), HeaderLen)
                  IN  [res |-> "frame", pkt |-> <<RawControlPacket(id, bytes)>>,
                       rest |-> BDrop(b, n)]
             ELSE [res |-> "none", pkt |-> <<>>, rest |-> b]
    ELSE [res |-> "none", pkt |-> <<>>, rest |-> b]

\* RawControlCodec::decode dropping the header of a frame it rejects as too
\* long
RawDecode_SkipsBadHeader(b) ==
    LET buf_len == BLen(b) IN
    IF buf_len >= HeaderLen
    THEN LET id  == GetU16(b, 0)
             len == GetU32(b, 2)
         IN  IF U32Gt(len, ToU32(MaxPacketLen))
             THEN [res |-> "toolong", pkt |-> <<>>, rest |-> BDrop(b, HeaderLen)]
             ELSE IF buf_len >= HeaderLen + U32ToNat(len)
             THEN LET n     == HeaderLen + U32ToNat(len)
                      bytes == BDrop(BTake(b, n), HeaderLen)
                  IN  [res |-> "frame", pkt |-> <<RawControlPacket(id, bytes)>>,
                       rest |-> BDrop(b, n)]
             ELSE [res |-> "none", pkt |-> <<>>, rest |-> b]
    ELSE [res |-> "none", pkt |-> <<>>, rest |-> b]

\* RawControlCodec::decode returning a complete frame without split_to: the
\* frame stays in the buffer
RawDecode_Peek(b) ==
    LET buf_len == BLen(b) IN
    IF buf_len >= HeaderLen
    THEN LET id  == GetU16(b, 0)
             len == GetU32(b, 2)
         IN  IF U32Gt(len, ToU32(MaxPacketLen))
             THEN [res |-> "toolong", pkt |-> <<>>, rest |-> b]
             ELSE IF buf_len >= HeaderLen + U32ToNat(len)
             THEN LET n     == HeaderLen + U32ToNat(len)
                      bytes == BDrop(BTake(b, n), HeaderLen)
                  IN  [res |-> "frame", pkt |-> <<RawControlPacket(id, bytes)>>,
                       rest |-> b]
             ELSE [res |-> "none", pkt |-> <<>>, rest |-> b]
    ELSE [res |-> "none", pkt |-> <<>>, rest |-> b]

\* RawControlCodec::decode: the result and the buffer it leaves.
\* res: "none" = Ok(None), "frame" = Ok(Some(pkt[1])), "toolong" = Err
RawDecode(b) ==
    LET buf_len == BLen(b) IN
    IF buf_len >= HeaderLen
    THEN LET id  == GetU16(b, 0)
             len == GetU32(b, 2)
         IN  IF U32Gt(len, ToU32(MaxPacketLen))
             THEN [res |-> "toolong", pkt |-> <<>>, rest |-> b]
             ELSE IF buf_len >= HeaderLen + U32ToNat(len)
             THEN LET n     == HeaderLen + U32ToNat(len)
                      bytes == BDrop(BTake(b, n), HeaderLen)
                  IN  [res |-> "frame", pkt |-> <<RawControlPacket(id, bytes)>>,
                       rest |-> BDrop(b, n)]
             ELSE [res |-> "none", pkt |-> <<>>, rest |-> b]
    ELSE [res |-> "none", pkt |-> <<>>, rest |-> b]

\* RawControlCodec::encode clearing dst before it writes
RawEncode_ClearsDst(item, dst) ==
    LET len == BLen(item.bytes)
    IN  BCat(PutU32(PutU16(<<>>, item.id), len), item.bytes)

\* RawControlCodec::encode writing the frame length, header included
RawEncode_LenWithHeader(item, dst) ==
    LET len == BLen(item.bytes)
    IN  BCat(PutU32(PutU16(dst, item.id), HeaderLen + len), item.bytes)

\* RawControlCodec::encode: dst after the call (the call returns Ok(()))
RawEncode(item, dst) ==
    LET len == BLen(item.bytes)
    IN  BCat(PutU32(PutU16(dst, item.id), len), item.bytes)

(***************************************************************************)
(* The packet registry generated by define_packets! / define_packet_mappings *)
(***************************************************************************)
\* the kinds in declaration order (control.rs:435-466)
PacketNames ==
    << "Version", "UDPTunnel", "Authenticate", "Ping", "Reject", "ServerSync",
       "ChannelRemove", "ChannelState", "UserRemove", "UserState", "BanList",
       "TextMessage", "PermissionDenied", "ACL", "QueryUsers", "CryptSetup",
       "ContextActionModify", "ContextAction", "UserList", "VoiceTarget",
       "PermissionQuery", "CodecVersion", "UserStats", "RequestBlob",
       "ServerConfig", "SuggestConfig", "WebRTC", "IceCandidate", "TalkingState" >>

\* the kinds under #[cfg(feature = "webrtc-extensions")]
GatedNames == {"WebRTC", "IceCandidate", "TalkingState"}

\* define_packet_mappings starting the recursion at 1
IdOf_OneBased(name) == CHOOSE i \in 1..Len(PacketNames) : PacketNames[i] = name

\* msgs::id::$name: @rec starts at 0 and passes $id + 1 to the tail
IdOf(name) == (CHOOSE i \in 1..Len(PacketNames) : PacketNames[i] = name) - 1

\* the kind is compiled into a build with the feature on (feat) or off
Compiled(name, feat) == name \notin GatedNames \/ feat

\* the match arms compiled without their #[cfg] attributes
KindOf_IgnoresFeature(id, feat) ==
    IF \E i \in 1..Len(PacketNames) : IdOf(PacketNames[i]) = id
    THEN <<PacketNames[CHOOSE i \in 1..Len(PacketNames) : IdOf(PacketNames[i]) = id]>>
    ELSE <<>>

\* the match arm of TryFrom<RawControlPacket> for ControlPacket taken for id:
\* <<name>> of the compiled kind whose msgs::id constant is id, <<>> for `_`
KindOf(id, feat) ==
    LET arms == {i \in 1..Len(PacketNames) :
                    Compiled(PacketNames[i], feat) /\ IdOf(PacketNames[i]) = id}
    IN  IF arms = {} THEN <<>> ELSE <<PacketNames[CHOOSE i \in arms : TRUE]>>

(***************************************************************************)
(* External collaborators: the protobuf message codec and VoiceCodec.      *)
(* A message has one optional varint field; a voice packet has a sequence  *)
(* number and is written behind a byte naming the role it is bound for.    *)
(***************************************************************************)
Msg(field) == [field |-> field]

\* Message::write_to_bytes
WriteToBytes(msg) ==
    IF msg.field = <<>> THEN <<>> ELSE FromSeq(<<8, msg.field[1]>>)

\* Message::parse_from_bytes
ParseFromBytes(bytes) ==
    IF bytes = <<>>
    THEN [res |-> "ok", pkt |-> <<Msg(<<>>)>>]
    ELSE IF BLen(bytes) = 2 /\ BAt(bytes, 0) = 8 /\ BAt(bytes, 1) < 128
    THEN [res |-> "ok", pkt |-> <<Msg(<<BAt(bytes, 1)>>)>>]
    ELSE [res |-> "err", pkt |-> <<>>]

VoicePacket(dst, seq) == [dst |-> dst, seq |-> seq]

\* the byte VoiceCodec writes first for a packet bound for dst
RoleByte(dst) == IF dst = "Clientbound" THEN 128 ELSE 32

\* VoiceCodec::<Dst, Dst>::encode
VoiceEncode(dst, p) == FromSeq(<<RoleByte(dst), p.seq>>)

\* VoiceCodec::<Dst, Dst>::decode
VoiceDecode(dst, bytes) ==
    IF BLen(bytes) = 2 /\ BAt(bytes, 0) = RoleByte(dst) /\ BAt(bytes, 1) < 128
    THEN [res |-> "ok", pkt |-> <<VoicePacket(dst, BAt(bytes, 1))>>]
    ELSE [res |-> "err", pkt |-> <<>>]

(***************************************************************************)
(* ControlPacket and the conversions generated by define_packet_from! and  *)
(* define_packet_enum!.                                                    *)
(***************************************************************************)
ControlPacket(variant, inner) == [variant |-> variant, inner |-> inner]

\* From<VoicePacket<Dst>> for RawControlPacket tagging the frame msgs::id::Version
VoiceIntoRaw_VersionTag(msg) ==
    RawControlPacket(IdOf("Version"), VoiceEncode(msg.dst, msg))

\* From<VoicePacket<Dst>> for RawControlPacket
VoiceIntoRaw(msg) ==
    RawControlPacket(IdOf("UDPTunnel"), VoiceEncode(msg.dst, msg))

\* .map(|it| it.expect("VoiceCodec is stateless")) on what decode returned:
\* Ok(None) panics, Ok(Some(_)) and Err(_) pass
ExpectItem(r) == IF r.res = "none" THEN [res |-> "panic", pkt |-> <<>>] ELSE r

\* TryFrom<Bytes> for VoicePacket<Dst>: decode, then expect() on the Option
VoiceTryFromBytes(dst, bytes) == ExpectItem(VoiceDecode(dst, bytes))

\* what the return type of VoiceCodec::decode, Result<Option<VoicePacket>, _>,
\* admits for the bytes: the packet or error of the codec, or Ok(None)
VoiceOutcomes(dst, bytes) ==
    { VoiceDecode(dst, bytes),
      [res |-> "err", pkt |-> <<>>],
      [res |-> "none", pkt |-> <<>>] }

\* TryFrom<RawControlPacket> for VoicePacket<Dst> with the tag check dropped
VoiceTryFromRaw_NoTagCheck(packet, r) == ExpectItem(r)

\* TryFrom<RawControlPacket> for VoicePacket<Dst>, r being what
\* VoiceCodec::decode returns for the payload
VoiceTryFromRaw(packet, r) ==
    IF packet.id = IdOf("UDPTunnel")
    THEN ExpectItem(r)
    ELSE [res |-> "mismatch", pkt |-> <<>>]

\* From<$type> for RawControlPacket
MsgIntoRaw(name, msg) == RawControlPacket(IdOf(name), WriteToBytes(msg))

\* TryFrom<Bytes> for $type
MsgTryFromBytes(bytes) == ParseFromBytes(bytes)

\* TryFrom<RawControlPacket> for $type with the tag check dropped
MsgTryFromRaw_NoTagCheck(name, packet) == MsgTryFromBytes(packet.bytes)

\* TryFrom<RawControlPacket> for $type, $name = name
MsgTryFromRaw(name, packet) ==
    IF packet.id = IdOf(name)
    THEN MsgTryFromBytes(packet.bytes)
    ELSE [res |-> "mismatch", pkt |-> <<>>]

\* TryFrom<RawControlPacket> for ControlPacket<Dst>, r being what
\* VoiceCodec::decode returns for the payload
TryFromRawWith(packet, feat, r) ==
    LET k == KindOf(packet.id, feat) IN
    IF k = <<>>
    THEN [res |-> "ok", pkt |-> <<ControlPacket("Other", packet)>>]
    ELSE LET c == IF k[1] = "UDPTunnel"
                  THEN ExpectItem(r)
                  ELSE MsgTryFromBytes(packet.bytes)
         IN  IF c.res = "ok"
             THEN [res |-> "ok", pkt |-> <<ControlPacket(k[1], c.pkt[1])>>]
             ELSE [res |-> c.res, pkt |-> <<>>]

\* TryFrom<RawControlPacket> for ControlPacket failing on a tag without a kind
TryFromRaw_StrictUnknown(packet, dst, feat) ==
    LET k == KindOf(packet.id, feat) IN
    IF k = <<>>
    THEN [res |-> "err", pkt |-> <<>>]
    ELSE LET r == IF k[1] = "UDPTunnel"
                  THEN VoiceTryFromBytes(dst, packet.bytes)
                  ELSE MsgTryFromBytes(packet.bytes)
         IN  IF r.res = "ok"
             THEN [res |-> "ok", pkt |-> <<ControlPacket(k[1], r.pkt[1])>>]
             ELSE [res |-> r.res, pkt |-> <<>>]

\* TryFrom<RawControlPacket> for ControlPacket<Dst>
TryFromRaw(packet, dst, feat) ==
    TryFromRawWith(packet, feat, VoiceDecode(dst, packet.bytes))

\* From<ControlPacket<Dst>> for RawControlPacket
IntoRaw(packet) ==
    IF packet.variant = "Other" THEN packet.inner
    ELSE IF packet.variant = "UDPTunnel" THEN VoiceIntoRaw(packet.inner)
    ELSE MsgIntoRaw(packet.variant, packet.inner)

(***************************************************************************)
(* ControlCodec<EncodeDst, DecodeDst>.                                     *)
(***************************************************************************)
\* ServerControlCodec = ControlCodec<Clientbound, Serverbound>,
\* ClientControlCodec = ControlCodec<Serverbound, Clientbound>
EncodeDst(role) == IF role = "server" THEN "Clientbound" ELSE "Serverbound"

\* ControlCodec with both type parameters bound to the encode role
DecodeDst_AsEncode(role) == IF role = "server" THEN "Clientbound" ELSE "Serverbound"

\* ServerControlCodec declared ControlCodec<Clientbound, Clientbound>
DecodeDst_ServerClientbound(role) == "Clientbound"

DecodeDst(role) == IF role = "server" THEN "Serverbound" ELSE "Clientbound"

\* ControlCodec::decode converting a peeked frame and consuming it only when
\* the conversion succeeds
ControlDecode_KeepRejected(role, b, feat) ==
    LET r == RawDecode(b) IN
    IF r.res = "frame"
    THEN LET c == TryFromRaw(r.pkt[1], DecodeDst(role), feat)
         IN  [res |-> c.res, pkt |-> c.pkt,
              rest |-> IF c.res = "ok" THEN r.rest ELSE b]
    ELSE r

\* ControlCodec::decode: the result and the buffer it leaves.
\* res: "none" = Ok(None), "ok" = Ok(Some(pkt[1])), "toolong" / "err" = Err
ControlDecode(role, b, feat) ==
    LET r == RawDecode(b) IN
    IF r.res = "frame"
    THEN LET c == TryFromRaw(r.pkt[1], DecodeDst(role), feat)
         IN  [res |-> c.res, pkt |-> c.pkt, rest |-> r.rest]
    ELSE r

\* Encoder<ControlPacket<EncodeDst>>::encode: dst after the call
ControlEncode(item, dst) == RawEncode(IntoRaw(item), dst)

(***************************************************************************)
(* A raw buffer filled with arbitrary bytes and decoded.                   *)
(***************************************************************************)
NoOp == [op |-> "init", res |-> "none", pkt |-> <<>>, pre |-> <<>>]

\* run lengths appended in one step besides single bytes
RunLens == {MaxPacketLen - 1, MaxPacketLen}

\* whole frames the transport appends in one step
RawFrames ==
    { RawControlPacket(1, <<>>),
      RawControlPacket(1, FromSeq(<<7>>)),
      RawControlPacket(515, FromSeq(<<0, 255>>)) }

InitRaw ==
    /\ feature = FALSE
    /\ tx = "raw"
    /\ rx = "raw"
    /\ sent = <<>>
    /\ wire = <<>>
    /\ buf = <<>>
    /\ out = <<>>
    /\ last = NoOp

\* the transport appends one byte to the read buffer
AppendByte(b) ==
    /\ \/ BLen(buf) < MaxRawLen
       \/ BLen(buf) >= MaxPacketLen /\ BLen(buf) < HeaderLen + MaxPacketLen
    /\ buf' = BCat(buf, Run(b, 1))
    /\ last' = [op |-> "append", res |-> "none", pkt |-> <<>>, pre |-> buf]
    /\ UNCHANGED <<feature, tx, rx, sent, wire, out>>

\* the transport appends a long run of one byte after a header
AppendRun(b, n) ==
    /\ BLen(buf) >= HeaderLen
    /\ BLen(buf) <= MaxRawLen
    /\ buf' = BCat(buf, Run(b, n))
    /\ last' = [op |-> "append", res |-> "none", pkt |-> <<>>, pre |-> buf]
    /\ UNCHANGED <<feature, tx, rx, sent, wire, out>>

\* the transport appends the bytes of a whole encoded frame
AppendFrame(f) ==
    /\ BLen(buf) <= MaxBufLen
    /\ buf' = RawEncode(f, buf)
    /\ last' = [op |-> "append", res |-> "none", pkt |-> <<>>, pre |-> buf]
    /\ UNCHANGED <<feature, tx, rx, sent, wire, out>>

\* a call of RawControlCodec::decode on the read buffer
DecodeRaw ==
    /\ LET r == RawDecode(buf)
       IN  /\ buf' = r.rest
           /\ last' = [op |-> "decode", res |-> r.res, pkt |-> r.pkt, pre |-> buf]
    /\ UNCHANGED <<feature, tx, rx, sent, wire, out>>

NextRaw ==
    \/ \E b \in ByteVals : AppendByte(b)
    \/ \E n \in RunLens : AppendRun(255, n)
    \/ \E f \in RawFrames : AppendFrame(f)
    \/ DecodeRaw

SpecRaw == InitRaw /\ [][NextRaw]_vars

(***************************************************************************)
(* A connection: the sending codec encodes items onto the wire, the        *)
(* transport moves the bytes in chunks into the read buffer, the receiving *)
(* codec decodes from the read buffer.                                     *)
(***************************************************************************)
\* the codec at the sending and at the receiving end
Links ==
    { <<"raw", "raw">>, <<"raw", "server">>, <<"raw", "client">>,
      <<"server", "client">>, <<"client", "server">>, <<"server", "server">> }

\* frames a RawControlCodec sender encodes
StreamFrames ==
    { RawControlPacket(IdOf("Version"), FromSeq(<<8, 5>>)),
      RawControlPacket(IdOf("Ping"), FromSeq(<<8>>)),
      RawControlPacket(IdOf("UDPTunnel"), FromSeq(<<128, 3>>)),
      RawControlPacket(IdOf("WebRTC"), <<>>),
      RawControlPacket(515, Run(0, MaxPacketLen)) }

\* items a ControlCodec<dst, _> sender encodes
StreamPackets(dst, feat) ==
    { ControlPacket("Version", Msg(<<5>>)),
      ControlPacket("UDPTunnel", VoicePacket(dst, 3)),
      ControlPacket("Other", RawControlPacket(515, FromSeq(<<0, 255>>))) }
    \cup (IF feat THEN {ControlPacket("TalkingState", Msg(<<1>>))} ELSE {})

Init ==
    /\ feature \in BOOLEAN
    /\ \E l \in Links : tx = l[1] /\ rx = l[2]
    /\ sent = <<>>
    /\ wire = <<>>
    /\ buf = <<>>
    /\ out = <<>>
    /\ last = NoOp

\* the sender calls RawControlCodec::encode(f, wire)
SendRaw(f) ==
    /\ tx = "raw"
    /\ Len(sent) < MaxFrames
    /\ wire' = RawEncode(f, wire)
    /\ sent' = Append(sent, [item |-> <<>>, raw |-> f])
    /\ last' = [op |-> "encode", res |-> "ok", pkt |-> <<>>, pre |-> wire]
    /\ UNCHANGED <<feature, tx, rx, buf, out>>

\* the sender calls ControlCodec::encode(m, wire)
SendControl(m) ==
    /\ tx # "raw"
    /\ Len(sent) < MaxFrames
    /\ wire' = ControlEncode(m, wire)
    /\ sent' = Append(sent, [item |-> <<m>>, raw |-> IntoRaw(m)])
    /\ last' = [op |-> "encode", res |-> "ok", pkt |-> <<>>, pre |-> wire]
    /\ UNCHANGED <<feature, tx, rx, buf, out>>

\* the transport appends the next k bytes of the wire to the read buffer
Deliver(k) ==
    /\ k >= 1
    /\ k <= BLen(wire)
    /\ k = 1 => (BLen(buf) < MaxSplit \/ BLen(wire) <= MaxSplit)
    /\ buf' = BCat(buf, BTake(wire, k))
    /\ wire' = BDrop(wire, k)
    /\ last' = [op |-> "append", res |-> "none", pkt |-> <<>>, pre |-> <<>>]
    /\ UNCHANGED <<feature, tx, rx, sent, out>>

\* the receiver calls decode of its codec on the read buffer; a consumed
\* frame's outcome is recorded in out
Decode ==
    /\ LET r == IF rx = "raw" THEN RawDecode(buf) ELSE ControlDecode(rx, buf, feature)
       IN  /\ buf' = r.rest
           /\ last' = [op |-> "decode", res |-> r.res, pkt |-> r.pkt, pre |-> buf]
           /\ out' = IF r.res \in {"none", "toolong"}
                     THEN out
                     ELSE Append(out, [res |-> r.res, pkt |-> r.pkt])
    /\ UNCHANGED <<feature, tx, rx, sent, wire>>

Next ==
    \/ \E f \in StreamFrames : SendRaw(f)
    \/ \E m \in StreamPackets(EncodeDst(tx), feature) : SendControl(m)
    \/ \E k \in {1, BLen(wire) - 1, BLen(wire)} : Deliver(k)
    \/ Decode

Spec == Init /\ [][Next]_vars

(***************************************************************************)
(* One encoded frame fed to RawControlCodec::decode a byte at a time.      *)
(***************************************************************************)
\* longest payload fed byte by byte
MaxPayload == 2

\* the frames fed byte by byte
ByteFrames ==
    { RawControlPacket(id, FromSeq(q)) :
        id \in {1, 515},
        q \in UNION { [1..n -> {0, 255}] : n \in 0..MaxPayload } }

InitByte ==
    /\ feature = FALSE
    /\ tx = "raw"
    /\ rx = "raw"
    /\ \E f \in ByteFrames :
          /\ sent = <<[item |-> <<>>, raw |-> f]>>
          /\ wire = RawEncode(f, <<>>)
    /\ buf = <<>>
    /\ out = <<>>
    /\ last = NoOp

\* the next byte of the frame arrives
FeedByte ==
    /\ last.op \in {"init", "decode"}
    /\ Deliver(1)

\* decode is called after the byte
DecodeFed ==
    /\ last.op = "append"
    /\ Decode

NextByte == FeedByte \/ DecodeFed

SpecByte == InitByte /\ [][NextByte]_vars

(***************************************************************************)
(* The conversions between RawControlPacket and ControlPacket<Dst> applied *)
(* to one input: a raw packet is parsed and the result serialized and      *)
(* encoded, or a packet is serialized and the result parsed.               *)
(***************************************************************************)
\* payloads of the raw packets converted
ConvPayloads ==
    { <<>>, FromSeq(<<8, 5>>), FromSeq(<<8>>), FromSeq(<<128, 3>>),
      FromSeq(<<32, 3>>), Run(0, MaxPacketLen) }

\* raw packets converted
ConvFrames ==
    { RawControlPacket(id, b) : id \in {0, 1, 25, 26, 28, 29, 65535}, b \in ConvPayloads }

\* packets of type ControlPacket<dst> converted
ConvPackets(dst, feat) ==
    { ControlPacket(PacketNames[i], Msg(fld)) :
        i \in {j \in 1..Len(PacketNames) :
                 Compiled(PacketNames[j], feat) /\ PacketNames[j] # "UDPTunnel"},
        fld \in {<<>>, <<5>>} }
    \cup { ControlPacket("UDPTunnel", VoicePacket(dst, 3)) }
    \cup { ControlPacket("Other", RawControlPacket(id, b)) :
             id \in {0, 1, 26, 29, 65535},
             b \in {<<>>, FromSeq(<<8, 5>>), FromSeq(<<0, 255>>)} }

InitConv ==
    /\ feature \in BOOLEAN
    /\ rx \in {"server", "client"}
    /\ tx = rx
    /\ sent = <<>>
    /\ wire = <<>>
    /\ buf = <<>>
    /\ out = <<>>
    /\ last = NoOp

\* ControlPacket::<DecodeDst>::try_from(f)
ConvParse(f) ==
    /\ last.op = "init"
    /\ LET r == TryFromRaw(f, DecodeDst(rx), feature)
       IN  /\ out' = <<r>>
           /\ last' = [op |-> "parse", res |-> r.res, pkt |-> r.pkt, pre |-> <<>>]
    /\ sent' = <<[item |-> <<>>, raw |-> f]>>
    /\ UNCHANGED <<feature, tx, rx, wire, buf>>

\* the parsed packet is converted back and encoded into an empty buffer
ConvEncodeBack ==
    /\ last.op = "parse"
    /\ last.res = "ok"
    /\ wire' = ControlEncode(last.pkt[1], <<>>)
    /\ last' = [last EXCEPT !.op = "reencode"]
    /\ UNCHANGED <<feature, tx, rx, sent, buf, out>>

\* RawControlPacket::from(m)
ConvSerialize(m) ==
    /\ last.op = "init"
    /\ sent' = <<[item |-> <<m>>, raw |-> IntoRaw(m)]>>
    /\ last' = [op |-> "serialize", res |-> "ok", pkt |-> <<>>, pre |-> <<>>]
    /\ UNCHANGED <<feature, tx, rx, wire, buf, out>>

\* ControlPacket::<DecodeDst>::try_from of the serialized packet
ConvReparse ==
    /\ last.op = "serialize"
    /\ LET r == TryFromRaw(sent[1].raw, DecodeDst(rx), feature)
       IN  /\ out' = <<r>>
           /\ last' = [op |-> "reparse", res |-> r.res, pkt |-> r.pkt, pre |-> <<>>]
    /\ UNCHANGED <<feature, tx, rx, sent, wire, buf>>

NextConv ==
    \/ \E f \in ConvFrames : ConvParse(f)
    \/ ConvEncodeBack
    \/ \E m \in ConvPackets(DecodeDst(rx), feature) : ConvSerialize(m)
    \/ ConvReparse

SpecConv == InitConv /\ [][NextConv]_vars

(***************************************************************************)
(* The narrow conversions TryFrom<RawControlPacket> for one kind's type    *)
(* and the dispatching conversion, applied to one raw packet; VoiceCodec   *)
(* may return whatever its return type admits.                             *)
(***************************************************************************)
\* the kinds of the build that wrap a protobuf message
MsgKinds(feat) ==
    { PacketNames[i] : i \in {j \in 1..Len(PacketNames) :
                                Compiled(PacketNames[j], feat) /\ PacketNames[j] # "UDPTunnel"} }

InitExtract ==
    /\ feature \in BOOLEAN
    /\ rx \in {"server", "client"}
    /\ tx = rx
    /\ sent = <<>>
    /\ wire = <<>>
    /\ buf = <<>>
    /\ out = <<>>
    /\ last = NoOp

\* <$type>::try_from(f) for the protobuf kind name
ExtractMsg(name, f) ==
    /\ last.op = "init"
    /\ LET r == MsgTryFromRaw(name, f)
       IN  /\ out' = <<r>>
           /\ last' = [op |-> "extract", res |-> r.res, pkt |-> r.pkt, pre |-> <<>>,
                       kind |-> name]
    /\ sent' = <<[item |-> <<>>, raw |-> f]>>
    /\ UNCHANGED <<feature, tx, rx, wire, buf>>

\* VoicePacket::<DecodeDst>::try_from(f), the codec returning v
ExtractVoice(f, v) ==
    /\ last.op = "init"
    /\ LET r == VoiceTryFromRaw(f, v)
       IN  /\ out' = <<r>>
           /\ last' = [op |-> "extract", res |-> r.res, pkt |-> r.pkt, pre |-> <<>>,
                       kind |-> "UDPTunnel"]
    /\ sent' = <<[item |-> <<>>, raw |-> f]>>
    /\ UNCHANGED <<feature, tx, rx, wire, buf>>

\* ControlPacket::<DecodeDst>::try_from(f), the codec returning v
Dispatch(f, v) ==
    /\ last.op = "init"
    /\ LET r == TryFromRawWith(f, feature, v)
       IN  /\ out' = <<r>>
           /\ last' = [op |-> "dispatch", res |-> r.res, pkt |-> r.pkt, pre |-> <<>>,
                       kind |-> "ControlPacket"]
    /\ sent' = <<[item |-> <<>>, raw |-> f]>>
    /\ UNCHANGED <<feature, tx, rx, wire, buf>>

NextExtract ==
    \/ \E name \in MsgKinds(feature), f \in ConvFrames : ExtractMsg(name, f)
    \/ \E f \in ConvFrames :
          \E v \in VoiceOutcomes(DecodeDst(rx), f.bytes) : ExtractVoice(f, v)
    \/ \E f \in ConvFrames :
          \E v \in VoiceOutcomes(DecodeDst(rx), f.bytes) : Dispatch(f, v)

SpecExtract == InitExtract /\ [][NextExtract]_vars

(***************************************************************************)
(* One buffer that RawControlCodec::encode writes frames of any length     *)
(* into and RawControlCodec::decode reads from.                            *)
(***************************************************************************)
\* encode calls on the buffer
MaxEnc == 2

\* payload lengths encoded: none, one byte, the decode limit, and beyond it
EncLens == {0, 1, MaxPacketLen, MaxPacketLen + 1, 16777216}

\* frames encoded
EncFrames == { RawControlPacket(id, Run(7, n)) : id \in {0, 515}, n \in EncLens }

InitEnc ==
    /\ feature = FALSE
    /\ tx = "raw"
    /\ rx = "raw"
    /\ sent = <<>>
    /\ wire \in {<<>>, FromSeq(<<255>>)}
    /\ buf = wire
    /\ out = <<>>
    /\ last = NoOp

\* RawControlCodec::encode(f, buf)
EncodeRaw(f) ==
    /\ Len(sent) < MaxEnc
    /\ buf' = RawEncode(f, buf)
    /\ sent' = Append(sent, [item |-> <<>>, raw |-> f])
    /\ last' = [op |-> "encode", res |-> "ok", pkt |-> <<>>, pre |-> buf]
    /\ UNCHANGED <<feature, tx, rx, wire, out>>

NextEnc ==
    \/ \E f \in EncFrames : EncodeRaw(f)
    \/ Decode

SpecEnc == InitEnc /\ [][NextEnc]_vars

(***************************************************************************)
(* Draining: the caller calls RawControlCodec::decode again and again on a *)
(* buffer that receives no more bytes.  wire remembers the buffer as it    *)
(* was before the first call.                                              *)
(***************************************************************************)
\* most whole frames in a drained buffer
MaxDrain == 2

\* the whole frames a drained buffer holds
DrainFrames ==
    { RawControlPacket(0, <<>>),
      RawControlPacket(515, FromSeq(<<7, 255>>)),
      RawControlPacket(9, Run(7, MaxPacketLen)) }

\* what follows the whole frames: nothing, part of a header, part of a
\* frame, or a header declaring 0x800000 bytes
DrainTails ==
    { <<>>,
      FromSeq(<<0, 0, 0>>),
      FromSeq(<<0, 9, 0, 0, 0, 2, 7>>),
      FromSeq(<<0, 0, 0, 128, 0, 0, 7>>) }

\* RawControlCodec::encode called for each frame of fs in turn
RECURSIVE EncodeAll(_, _)
EncodeAll(fs, dst) ==
    IF fs = <<>> THEN dst ELSE EncodeAll(Tail(fs), RawEncode(fs[1], dst))

\* the buffers drained
DrainBufs ==
    { BCat(EncodeAll(fs, <<>>), t) :
        fs \in UNION { [1..n -> DrainFrames] : n \in 0..MaxDrain },
        t \in DrainTails }

InitDrain ==
    /\ feature = FALSE
    /\ tx = "raw"
    /\ rx = "raw"
    /\ sent = <<>>
    /\ wire \in DrainBufs
    /\ buf = wire
    /\ out = <<>>
    /\ last = NoOp

NextDrain == Decode

\* the caller keeps calling decode: a call that would change the state is
\* eventually made
SpecDrain == InitDrain /\ [][NextDrain]_vars /\ WF_vars(Decode)

(***************************************************************************)
(* Two codec instances, each called on its own buffer, their calls         *)
(* interleaved in any order.  Here every variable is a pair, one entry per *)
(* instance: rx the codec types, tx the field values of the instances,     *)
(* wire the buffers before the first call, buf the buffers, sent the calls *)
(* made on each instance and out the results they returned.                *)
(***************************************************************************)
\* most calls made on one instance
MaxCalls == 2

\* the codec types of the two instances
TwoKinds == { <<"raw", "raw">>, <<"server", "client">> }

\* Default::default(): RawControlCodec is a unit struct, ControlCodec holds a
\* RawControlCodec and two PhantomData
CodecDefault(type) == IF type = "raw" THEN <<>> ELSE << <<>> >>

\* decode keeping in self that a call failed and failing every later call
CodecDecode_LatchesError(type, self, b) ==
    IF self # CodecDefault(type)
    THEN [self |-> self, res |-> "err", pkt |-> <<>>, rest |-> b]
    ELSE LET r == IF type = "raw" THEN RawDecode(b) ELSE ControlDecode(type, b, FALSE)
         IN  [self |-> IF r.res \in {"err", "toolong"} THEN Append(self, <<>>) ELSE self,
              res |-> r.res, pkt |-> r.pkt, rest |-> r.rest]

\* decode(&mut self, src): the instance, the result and the buffer it leaves
CodecDecode(type, self, b) ==
    LET r == IF type = "raw" THEN RawDecode(b) ELSE ControlDecode(type, b, FALSE)
    IN  [self |-> self, res |-> r.res, pkt |-> r.pkt, rest |-> r.rest]

\* encode(&mut self, item, dst): the instance, Ok(()) and the buffer it leaves
CodecEncode(type, self, item, b) ==
    [self |-> self, res |-> "ok", pkt |-> <<>>,
     rest |-> IF type = "raw" THEN RawEncode(item, b) ELSE ControlEncode(item, b)]

\* one call on an instance
CodecCall(type, self, call, b) ==
    IF call.op = "decode"
    THEN CodecDecode(type, self, b)
    ELSE CodecEncode(type, self, call.item[1], b)

\* the items passed to encode
TwoItems(type) ==
    IF type = "raw"
    THEN { RawControlPacket(515, FromSeq(<<7>>)) }
    ELSE { ControlPacket("UDPTunnel", VoicePacket(EncodeDst(type), 3)) }

\* what a buffer holds before the first call: nothing, or a Ping frame that
\* does not parse followed by a Version frame that does
TwoBufs ==
    { <<>>,
      RawEncode(RawControlPacket(IdOf("Version"), FromSeq(<<8, 5>>)),
                RawEncode(RawControlPacket(IdOf("Ping"), FromSeq(<<8>>)), <<>>)) }

InitTwo ==
    /\ feature = FALSE
    /\ rx \in TwoKinds
    /\ tx = <<CodecDefault(rx[1]), CodecDefault(rx[2])>>
    /\ wire \in TwoBufs \X TwoBufs
    /\ buf = wire
    /\ sent = << <<>>, <<>> >>
    /\ out = << <<>>, <<>> >>
    /\ last = [op |-> "init", res |-> "none", pkt |-> <<>>, pre |-> <<>>, inst |-> 0]

\* call c is made on instance i; n counts the calls made on both instances
TwoCall(i, c) ==
    /\ Len(sent[i]) < MaxCalls
    /\ LET r == CodecCall(rx[i], tx[i], c, buf[i])
       IN  /\ tx' = [tx EXCEPT ![i] = r.self]
           /\ buf' = [buf EXCEPT ![i] = r.rest]
           /\ out' = [out EXCEPT ![i] = Append(@, [res |-> r.res, pkt |-> r.pkt])]
           /\ last' = [op |-> c.op, res |-> r.res, pkt |-> r.pkt, pre |-> buf[i],
                       inst |-> i]
    /\ sent' = [sent EXCEPT ![i] =
                   Append(@, [op |-> c.op, item |-> c.item,
                              n |-> Len(sent[1]) + Len(sent[2])])]
    /\ UNCHANGED <<feature, rx, wire>>

\* instance i decodes from its buffer
TwoDecode(i) == TwoCall(i, [op |-> "decode", item |-> <<>>])

\* instance i encodes item m into its buffer
TwoEncode(i, m) == TwoCall(i, [op |-> "encode", item |-> <<m>>])

NextTwo ==
    \/ \E i \in {1, 2} : TwoDecode(i)
    \/ \E i \in {1, 2} : \E m \in TwoItems(rx[i]) : TwoEncode(i, m)

SpecTwo == InitTwo /\ [][NextTwo]_vars

(***************************************************************************)
(* Properties of RawControlCodec::decode on arbitrary buffers.             *)
(***************************************************************************)
\* the 6 header bytes declaring payload length 0x800000
HeaderTooLong == FromSeq(<<0, 0, 0, 128, 0, 0>>)
\* the 6 header bytes declaring payload length 0x7fffff
HeaderMaxLen == FromSeq(<<0, 0, 0, 127, 255, 255>>)

\* C3: decode returns the "packet too long" error exactly when at least 6
\* bytes are buffered and the big-endian u32 in bytes 2..6 exceeds 0x7fffff
\* (byte 2 is non-zero or byte 3 is at least 0x80); a header declaring
\* 0x7fffff is never rejected and yields a frame of 0x7fffff payload bytes
\* as soon as 6 + 0x7fffff bytes are buffered.
C3_TooLongIff ==
    last.op = "decode" =>
        /\ (last.res = "toolong") <=>
              /\ BLen(last.pre) >= 6
              /\ BAt(last.pre, 2) # 0 \/ BAt(last.pre, 3) >= 128
        /\ last.pre = HeaderTooLong => last.res = "toolong"
        /\ IsPrefix(HeaderMaxLen, last.pre) =>
              IF BLen(last.pre) >= 6 + 8388607
              THEN last.res = "frame" /\ BLen(last.pkt[1].bytes) = 8388607
              ELSE last.res = "none"

\* C3 witness: a header declaring 0x800000 was rejected with only its 6 bytes
\* buffered
C3_Witness ==
    last.op = "decode" /\ last.pre = HeaderTooLong /\ last.res = "toolong"

\* C4: when decode returns incomplete the buffer is byte for byte what it
\* was before the call, and this happens exactly when fewer than 6 bytes are
\* buffered or the declared length is within the limit and the payload is
\* not yet complete.
C4_IncompleteKeepsBuffer ==
    (last.op = "decode" /\ last.res = "none") =>
        /\ buf = last.pre
        /\ \/ BLen(buf) < 6
           \/ /\ BAt(buf, 2) = 0 /\ BAt(buf, 3) < 128
              /\ BLen(buf) < 6 + BAt(buf, 3) * 65536 + BAt(buf, 4) * 256 + BAt(buf, 5)

\* C4 witness: decode returned incomplete on a buffer holding a whole header
\* and a part of the payload
C4_Witness ==
    last.op = "decode" /\ last.res = "none" /\ BLen(last.pre) > 6

\* C5: a successful decode of buffer B leaves B = id (2 bytes big-endian) ++
\* payload length (4 bytes big-endian) ++ payload ++ the buffer after the
\* call, so exactly the first 6 + len bytes are removed; of two concatenated
\* frames the first is returned and the encoding of the second is left.
C5_SuccessConsumesOneFrame ==
    (last.op = "decode" /\ last.res = "frame") =>
        LET f == last.pkt[1] IN
        /\ f.id = BAt(last.pre, 0) * 256 + BAt(last.pre, 1)
        /\ BAt(last.pre, 2) = 0
        /\ BLen(f.bytes) = BAt(last.pre, 3) * 65536 + BAt(last.pre, 4) * 256 + BAt(last.pre, 5)
        /\ BLen(buf) = BLen(last.pre) - (6 + BLen(f.bytes))
        /\ last.pre = BCat(BCat(BTake(last.pre, 6), f.bytes), buf)
        /\ \A f1, f2 \in RawFrames :
              last.pre = RawEncode(f2, RawEncode(f1, <<>>)) =>
                  f = f1 /\ buf = RawEncode(f2, <<>>)

\* C5 witness: the first of two concatenated frames was decoded
C5_Witness ==
    /\ last.op = "decode" /\ last.res = "frame"
    /\ \E f1, f2 \in RawFrames :
          /\ last.pre = RawEncode(f2, RawEncode(f1, <<>>))
          /\ BLen(f1.bytes) > 0

(***************************************************************************)
(* Properties of a connection.                                             *)
(***************************************************************************)
\* the bytes of the frames q as the sender wrote them, in order
RECURSIVE StreamBytes(_)
StreamBytes(q) ==
    IF q = <<>> THEN <<>> ELSE BCat(RawEncode(q[1].raw, <<>>), StreamBytes(Tail(q)))

\* the frames sent that no decode call has consumed yet
Unconsumed == SubSeq(sent, Len(out) + 1, Len(sent))

\* C1: however the encoded frames f1..fn are split into chunks and however
\* often decode is called, RawControlCodec::decode returns f1, f2, ... in
\* order and unaltered, never an error; the bytes not yet consumed are the
\* encodings of the frames not yet returned, and once every byte is
\* delivered decode reports incomplete only with all frames returned and an
\* empty buffer.
C1_FramesInOrder ==
    rx = "raw" =>
        /\ Len(out) <= Len(sent)
        /\ \A i \in 1..Len(out) : out[i] = [res |-> "frame", pkt |-> <<sent[i].raw>>]
        /\ last.res # "toolong"
        /\ BCat(buf, wire) = StreamBytes(Unconsumed)
        /\ (last.op = "decode" /\ last.res = "none" /\ wire = <<>>) =>
              (Len(out) = Len(sent) /\ buf = <<>>)

\* C1 witness: two different frames were sent and both returned, the buffer
\* is empty
C1_Witness ==
    /\ rx = "raw" /\ Len(sent) = 2 /\ Len(out) = 2
    /\ sent[1].raw # sent[2].raw
    /\ last.op = "decode" /\ last.res = "frame"
    /\ buf = <<>> /\ wire = <<>>

\* C9: when ControlCodec::decode returns a parse error for a complete frame
\* of a known kind, that frame's 6 + len bytes are gone from the buffer; the
\* unconsumed bytes are always the encodings of the frames after the last
\* consumed one, and the i-th consumed outcome is the conversion of the i-th
\* frame sent, so the frame after a rejected one is decoded next.
C9_ParseErrorKeepsFraming ==
    rx # "raw" =>
        /\ Len(out) <= Len(sent)
        /\ BCat(buf, wire) = StreamBytes(Unconsumed)
        /\ \A i \in 1..Len(out) :
              /\ out[i] = TryFromRaw(sent[i].raw, DecodeDst(rx), feature)
              /\ out[i].res = "err" => KindOf(sent[i].raw.id, feature) # <<>>
        /\ (last.op = "decode" /\ last.res = "err") =>
              /\ last.pre = BCat(RawEncode(sent[Len(out)].raw, <<>>), buf)
              /\ BLen(buf) = BLen(last.pre) - (6 + BLen(sent[Len(out)].raw.bytes))

\* C9 witness: a frame was rejected by the parser and the frame after it
\* was decoded
C9_Witness ==
    /\ rx # "raw" /\ Len(out) = 2
    /\ out[1].res = "err" /\ out[2].res = "ok"
    /\ last.op = "decode"

\* C10: between a ServerControlCodec and a ClientControlCodec, in either
\* direction, a tunnelled voice packet is put on the wire as a frame with tag
\* 1 (UDPTunnel) whose payload is the voice codec's encoding of the packet
\* for the sender's encode role, and the receiver decodes it to
\* ControlPacket::UDPTunnel of the same packet.
C10_TunnelRoundTrip ==
    (tx # "raw" /\ rx # "raw" /\ tx # rx) =>
        \A i \in 1..Len(sent) :
            (sent[i].item # <<>> /\ sent[i].item[1].variant = "UDPTunnel") =>
                LET p == sent[i].item[1].inner IN
                /\ sent[i].raw.id = 1
                /\ sent[i].raw.bytes = VoiceEncode(EncodeDst(tx), p)
                /\ i <= Len(out) =>
                      out[i] = [res |-> "ok", pkt |-> <<ControlPacket("UDPTunnel", p)>>]

\* C10 witness: a client decoded the voice packet a server encoded
C10_Witness ==
    /\ tx = "server" /\ rx = "client"
    /\ last.op = "decode" /\ last.res = "ok"
    /\ last.pkt[1].variant = "UDPTunnel"
    /\ sent[Len(out)].item[1].variant = "UDPTunnel"

(***************************************************************************)
(* Properties of byte-wise feeding.                                        *)
(***************************************************************************)
\* C2: with the bytes of encode(f) fed one at a time into an empty buffer
\* and decode called after each, decode returns incomplete and keeps every
\* byte while bytes are outstanding, and with the last byte returns f, the
\* only frame returned, leaving the buffer empty.
C2_ByteWise ==
    last.op = "decode" =>
        IF wire # <<>>
        THEN /\ last.res = "none"
             /\ out = <<>>
             /\ BCat(buf, wire) = RawEncode(sent[1].raw, <<>>)
        ELSE /\ last.res = "frame"
             /\ last.pkt = <<sent[1].raw>>
             /\ Len(out) = 1
             /\ buf = <<>>

\* C2 witness: the last byte of a frame with a payload arrived and the frame
\* was returned
C2_Witness ==
    /\ last.op = "decode" /\ last.res = "frame" /\ wire = <<>>
    /\ BLen(last.pre) = 6 + BLen(sent[1].raw.bytes)
    /\ BLen(sent[1].raw.bytes) > 0

(***************************************************************************)
(* Properties of the conversions.                                          *)
(***************************************************************************)
\* no kind of the build has tag id: the tags are 0..25, and 26..28 with the
\* webrtc-extensions feature
Unassigned(id, feat) == id > 25 /\ (~feat \/ id > 28)

\* C6: a raw packet (t, b) with an unassigned tag converts to
\* ControlPacket::Other wrapping (t, b), never to an error, and converting
\* that back and encoding it writes t (2 bytes BE) ++ len(b) (4 bytes BE)
\* ++ b.
C6_UnknownPassthrough ==
    (last.op \in {"parse", "reencode"} /\ Unassigned(sent[1].raw.id, feature)) =>
        LET t == sent[1].raw.id
            b == sent[1].raw.bytes
            n == BLen(b)
        IN  /\ out = <<[res |-> "ok", pkt |-> <<ControlPacket("Other", sent[1].raw)>>]>>
            /\ last.op = "reencode" =>
                  wire = BCat(FromSeq(<<t \div 256, t % 256, n \div 16777216,
                                        (n \div 65536) % 256, (n \div 256) % 256,
                                        n % 256>>), b)

\* C6 witness: a packet with an unassigned tag and a payload went through
\* both conversions and the encoder
C6_Witness ==
    /\ last.op = "reencode"
    /\ Unassigned(sent[1].raw.id, feature)
    /\ sent[1].raw.bytes # <<>>

\* C7: a packet of a known kind serializes to a raw packet carrying its
\* kind's registry tag (position in the declaration order, from 0), and
\* parsing that raw packet returns the same variant with an equal payload.
C7_KnownRoundTrip ==
    (last.op \in {"serialize", "reparse"} /\ sent[1].item[1].variant # "Other") =>
        LET m == sent[1].item[1] IN
        /\ sent[1].raw.id < Len(PacketNames)
        /\ PacketNames[sent[1].raw.id + 1] = m.variant
        /\ m.variant = "UDPTunnel" => sent[1].raw.id = 1
        /\ last.op = "reparse" => out = <<[res |-> "ok", pkt |-> <<m>>]>>

\* C7 witness: a tunnelled voice packet was serialized and parsed back
C7_Witness ==
    /\ last.op = "reparse" /\ last.res = "ok"
    /\ sent[1].item[1].variant = "UDPTunnel"

\* C8 as stated: parse(serialize(m)) = m for every packet, the catch-all
\* variant with any id included.
C8_RoundTripEveryPacket ==
    last.op = "reparse" => out = <<[res |-> "ok", pkt |-> <<sent[1].item[1]>>]>>

\* C8 amended: parse(serialize(m)) = m for every packet of a known kind and
\* for ControlPacket::Other(RawControlPacket{id, bytes}) with an id that is
\* not assigned in the build's registry; Other with an assigned id never
\* parses back to itself.
C8_RoundTripUnassignedOther ==
    last.op = "reparse" =>
        LET m == sent[1].item[1] IN
        IF m.variant = "Other" /\ ~ Unassigned(m.inner.id, feature)
        THEN out # <<[res |-> "ok", pkt |-> <<m>>]>>
        ELSE out = <<[res |-> "ok", pkt |-> <<m>>]>>

\* C8 witness: Other with an unassigned id was serialized and parsed back
C8_Witness ==
    /\ last.op = "reparse" /\ last.res = "ok"
    /\ sent[1].item[1].variant = "Other"
    /\ last.pkt[1] = sent[1].item[1]

TagOf(name) == CHOOSE t \in 0..(Len(PacketNames) - 1) : PacketNames[t + 1] = name

\* C12 as stated: converting a raw packet to VoicePacket<Dst>, directly or
\* through the dispatcher, ends in a packet or a returned error whatever
\* VoiceCodec::decode returns, never in a panic.
C12_TunnelNeverPanics ==
    last.op \in {"extract", "dispatch"} => last.res \in {"ok", "err", "mismatch"}

\* C13: the narrow conversion for kind K returns the "expected packet of
\* type K" error for every raw packet whose id is not K's tag, whatever the
\* payload and whatever K's parser would make of it; the dispatching
\* conversion never returns that error, returns a parse error only for an
\* assigned tag, and returns Other wrapping the packet for every unassigned
\* tag.
C13_StrictVersusLenient ==
    /\ (last.op = "extract" /\ sent[1].raw.id # TagOf(last.kind)) =>
          out = <<[res |-> "mismatch", pkt |-> <<>>]>>
    /\ last.op = "dispatch" =>
          /\ last.res # "mismatch"
          /\ last.res = "err" => ~ Unassigned(sent[1].raw.id, feature)
          /\ Unassigned(sent[1].raw.id, feature) =>
                out = <<[res |-> "ok", pkt |-> <<ControlPacket("Other", sent[1].raw)>>]>>

\* C13 witness: the narrow conversion for Version refused a packet tagged
\* SuggestConfig whose payload the Version parser accepts
C13_Witness ==
    /\ last.op = "extract" /\ last.kind = "Version"
    /\ sent[1].raw = RawControlPacket(25, FromSeq(<<8, 5>>))
    /\ last.res = "mismatch"

(***************************************************************************)
(* Properties of the registry.                                             *)
(***************************************************************************)
\* the tags of the wire contract
TagTable ==
    { <<"Version", 0>>, <<"UDPTunnel", 1>>, <<"Authenticate", 2>>, <<"Ping", 3>>,
      <<"Reject", 4>>, <<"ServerSync", 5>>, <<"ChannelRemove", 6>>,
      <<"ChannelState", 7>>, <<"UserRemove", 8>>, <<"UserState", 9>>,
      <<"BanList", 10>>, <<"TextMessage", 11>>, <<"PermissionDenied", 12>>,
      <<"ACL", 13>>, <<"QueryUsers", 14>>, <<"CryptSetup", 15>>,
      <<"ContextActionModify", 16>>, <<"ContextAction", 17>>, <<"UserList", 18>>,
      <<"VoiceTarget", 19>>, <<"PermissionQuery", 20>>, <<"CodecVersion", 21>>,
      <<"UserStats", 22>>, <<"RequestBlob", 23>>, <<"ServerConfig", 24>>,
      <<"SuggestConfig", 25>>, <<"WebRTC", 26>>, <<"IceCandidate", 27>>,
      <<"TalkingState", 28>> }

\* the kinds of a build
Kinds(feat) == { PacketNames[i] : i \in {j \in 1..Len(PacketNames) : Compiled(PacketNames[j], feat)} }

\* C14: in a build with or without the feature, the generated tags of the
\* build's kinds are those of the wire contract (Version = 0, UDPTunnel = 1,
\* ..., SuggestConfig = 25, WebRTC, IceCandidate, TalkingState = 26, 27, 28),
\* distinct and contiguous from 0; a packet of a known kind serializes under
\* that tag and a raw packet parses to a known kind only under that tag; with
\* the feature off, raw packets tagged 26..28 parse to Other.
C14_RegistryTags ==
    /\ \A n \in Kinds(feature) : <<n, IdOf(n)>> \in TagTable
    /\ \A n1, n2 \in Kinds(feature) : n1 # n2 => IdOf(n1) # IdOf(n2)
    /\ { IdOf(n) : n \in Kinds(feature) } = 0..(Cardinality(Kinds(feature)) - 1)
    /\ (last.op \in {"serialize", "reparse"} /\ sent[1].item[1].variant # "Other") =>
          <<sent[1].item[1].variant, sent[1].raw.id>> \in TagTable
    /\ (last.op = "parse" /\ last.res = "ok" /\ last.pkt[1].variant # "Other") =>
          <<last.pkt[1].variant, sent[1].raw.id>> \in TagTable
    /\ (last.op = "parse" /\ ~feature /\ sent[1].raw.id \in 26..28) =>
          out = <<[res |-> "ok", pkt |-> <<ControlPacket("Other", sent[1].raw)>>]>>

\* C14 witness: in a build without the feature a raw packet tagged 26 was
\* parsed to Other
C14_Witness ==
    /\ last.op = "parse" /\ ~feature /\ sent[1].raw.id = 26
    /\ last.res = "ok" /\ last.pkt[1].variant = "Other"

(***************************************************************************)
(* Properties of RawControlCodec::encode.                                  *)
(***************************************************************************)
\* the 6 header bytes of a frame with tag t and a payload of n bytes
HeaderOf(t, n) ==
    FromSeq(<<t \div 256, t % 256, n \div 16777216, (n \div 65536) % 256,
              (n \div 256) % 256, n % 256>>)

\* C15: encode returns Ok and leaves the destination equal to what it held
\* before, followed by id (2 bytes BE), payload length (4 bytes BE) and the
\* payload: 6 + len bytes longer; until a decode consumes a frame the buffer
\* is its initial content followed by the frames in call order.
C15_EncodeAppends ==
    /\ last.op = "encode" =>
          LET f == sent[Len(sent)].raw
              n == BLen(f.bytes)
          IN  /\ last.res = "ok"
              /\ buf = BCat(last.pre, BCat(HeaderOf(f.id, n), f.bytes))
              /\ IsPrefix(last.pre, buf)
              /\ BLen(buf) = BLen(last.pre) + 6 + n
    /\ out = <<>> => buf = BCat(wire, StreamBytes(sent))

\* C15 witness: a frame beyond the decode limit was encoded behind another
\* frame
C15_Witness ==
    /\ last.op = "encode" /\ Len(sent) = 2 /\ out = <<>>
    /\ BLen(sent[1].raw.bytes) = 1
    /\ BLen(sent[2].raw.bytes) > MaxPacketLen

\* C18: decoding the bytes encode wrote for one frame f into an empty buffer
\* returns f and empties the buffer when f's payload has at most 0x7fffff
\* bytes, and returns the "packet too long" error, the buffer kept, when it
\* has more.
C18_EncodeDecodeLimit ==
    (last.op = "decode" /\ Len(sent) = 1 /\ last.pre = RawEncode(sent[1].raw, <<>>)) =>
        IF BLen(sent[1].raw.bytes) <= 8388607
        THEN /\ last.res = "frame"
             /\ last.pkt = <<sent[1].raw>>
             /\ buf = <<>>
        ELSE /\ last.res = "toolong"
             /\ buf = last.pre

\* C18 witness: the encoding of a frame with 0x800000 payload bytes was
\* rejected by decode
C18_Witness ==
    /\ last.op = "decode" /\ last.res = "toolong" /\ Len(sent) = 1
    /\ BLen(sent[1].raw.bytes) = 8388608
    /\ last.pre = RawEncode(sent[1].raw, <<>>)

\* the buffer starts with a header that declares more than 0x7fffff bytes
OversizedHeader(b) ==
    BLen(b) >= 6 /\ (BAt(b, 2) # 0 \/ BAt(b, 3) >= 128)

\* a decode call returned the "packet too long" error
TooLongReturned == last.op = "decode" /\ last.res = "toolong"

\* C17: when decode returns the "packet too long" error the buffer is what it
\* was before the call, and from then on, whatever is appended, the bytes the
\* buffer held stay at its front and every decode call returns that error
\* again and leaves the buffer as it found it: no frame is returned any more.
C17_FramingErrorPermanent ==
    /\ [](TooLongReturned => buf = last.pre)
    /\ [](TooLongReturned =>
            [](last.op = "decode" => (last.res = "toolong" /\ buf = last.pre)))
    /\ [][OversizedHeader(buf) => (IsPrefix(buf, buf') /\ OversizedHeader(buf'))]_vars

\* C17 witness: decode returned the framing error on a buffer that holds
\* 0x7fffff bytes behind the oversized header
C17_Witness ==
    /\ TooLongReturned
    /\ BLen(buf) >= HeaderLen + MaxPacketLen

\* a decode call returned incomplete or the framing error
DrainStopped == last.op = "decode" /\ last.res \in {"none", "toolong"}

\* C19: draining an n-byte buffer returns at most floor(n / 6) frames, every
\* returned frame having taken at least 6 bytes off the buffer; after
\* finitely many calls decode returns incomplete or the framing error, and
\* from then on every call returns that same outcome and leaves the buffer
\* unchanged.
C19_DrainTerminates ==
    /\ [](Len(out) <= BLen(wire) \div 6)
    /\ [](6 * Len(out) + BLen(buf) <= BLen(wire))
    /\ [][last'.op = "decode" /\ last'.res = "frame" =>
            BLen(buf') + 6 <= BLen(buf)]_vars
    /\ [][DrainStopped => (last' = last /\ buf' = buf /\ out' = out)]_vars
    /\ [](DrainStopped => (buf = last.pre /\ RawDecode(buf).res = last.res))
    /\ <>[]DrainStopped

\* C19 witness: a 15-byte buffer was drained of floor(15 / 6) frames and
\* decode returned incomplete on the 3 bytes left
C19_Witness ==
    /\ DrainStopped /\ last.res = "none"
    /\ BLen(wire) = 15
    /\ Len(out) = 2
    /\ BLen(buf) = 3

\* the calls of one instance made on it alone, in order, from buffer b
RECURSIVE RunAlone(_, _, _, _, _)
RunAlone(type, self, b, calls, results) ==
    IF calls = <<>>
    THEN [self |-> self, buf |-> b, out |-> results]
    ELSE LET r == CodecCall(type, self, calls[1], b)
         IN  RunAlone(type, r.self, r.rest, Tail(calls),
                      Append(results, [res |-> r.res, pkt |-> r.pkt]))

====
